---- MODULE Spec2Model ----
(***************************************************************************)
(* Flying Carpet core: the session orchestrator (core/src/lib.rs) and the  *)
(* Linux hotspot layer (core/src/linux/network.rs), modelled for a session *)
(* between two endpoints, each on its own machine with its own Transfer    *)
(* state, joined by one TCP connection on port 3290.                       *)
(***************************************************************************)
EXTENDS Integers, Sequences, FiniteSets, TLC

\* ------------------------------------------------------------------ bounds
\* The peer's build is at most this many major versions behind or ahead of
\* MAJOR_VERSION.
MaxVersionSkew == 1
\* "nmcli con up" attempts that fail before join_hotspot's loop is left alone.
MaxRetries == 1
\* I/O or command failures, or cancel requests, the environment injects in
\* one run.
MaxFaults == 1
\* The longest list of files a sender is started with.
MaxFiles == 2
\* The longest list of files a common folder is computed for.
MaxListed == 3
\* The whole chunks of the largest file sent on its own.
MaxChunks == 2

\* --------------------------------------------------------------- constants
CHUNKSIZE == 1000000
MAJOR_VERSION == 9

Endpoints == {"a", "b"}
Other(e) == IF e = "a" THEN "b" ELSE "a"

Versions == (MAJOR_VERSION - MaxVersionSkew)..(MAJOR_VERSION + MaxVersionSkew)
Mode == {"Send", "Receive"}
Peer == {"Android", "IOS", "Linux", "MacOS", "Windows"}
PeerResource == {"WifiClient", "WindowsHotspot", "LinuxHotspot"}
\* The peers a session is started with: one of each kind is_hosting tells
\* apart (iOS and macOS peers are treated as Android peers are).
PeersTried == {"Android", "Linux", "Windows"}

VARIABLES
    version,         \* the MAJOR_VERSION each endpoint's build was compiled with
                     \* (the peer build's: -1 until it is first put on the wire)
    mode,            \* start_transfer's mode, "none" before the call
    using_bluetooth, \* start_transfer's using_bluetooth
    peer,            \* start_transfer's peer, "none" before the call / with Bluetooth
    pc,              \* where each endpoint's session task is suspended
    hosting,         \* the branch connect_to_peer took: "undecided", "host", "join"
    peer_resource,   \* start_transfer's local peer_resource, "none" before it is bound
    hotspot,         \* Transfer.hotspot: "None" or the stored PeerResource variant
    ssid,            \* Transfer.ssid: "None" or "Some"
    profile,         \* the machine has an nmcli connection named by the SSID
    hotspotUp,       \* the machine's access point is up
    listening,       \* a TcpListener is bound to 0.0.0.0:3290
    pending,         \* a connection waits in the listener's backlog
    stream,          \* the endpoint's TcpStream: "none", "open", "shutdown"
    chan,            \* chan[e]: the u64 values in flight towards e
    peer_version,    \* confirm_version's peer_version, -1 before it is read
    peer_mode,       \* the host's peer_mode in confirm_mode, -1 before it is read
    wire,            \* every stream operation the endpoint completed, in order
    cv,              \* confirm_version's result: "none", "Ok", "Err"
    cm,              \* confirm_mode's result: "none", "Ok", "Err"
    output,          \* the messages given to ui.output, in order
    ret,             \* start_transfer's return: "running", "None", "Some";
                     \* "Aborted" when the task was cancelled before it returned
    retries,         \* failed "con up" attempts in join_hotspot
    ui_enabled,      \* enable_ui has been called
    faults,          \* failures and cancellations injected so far
    num_files,       \* files.len() on the sender, num_files on the receiver; -1 before
    index,           \* files the streaming loop has finished
    in_flight,       \* the values in flight towards the sender and towards the
                     \* receiver when the sender wrote the file count; -1 before
    teardown,        \* the steps clean_up_transfer has performed, in order
    tasks,           \* start_transfer tasks alive in the process
    cancel_handle,   \* Transfer.cancel_handle: "None" or "Some"
    files,           \* a list of files given to Mode::Send, as paths
    common_folder,   \* the common folder start_transfer computed for files
    fsize,           \* the size in bytes of a file given to send_file, -1 for none
    fkeys,           \* the keys send_file and receive_file are given
    fsent,           \* the frames send_file has written, in order
    fread,           \* how many of them receive_file has read
    fout,            \* the receiver's file: the ranges of bytes appended to it
    fstate           \* receive_file: "reading", "done", "failed"

vars == <<version, mode, using_bluetooth, peer, pc, hosting, peer_resource,
          hotspot, ssid, profile, hotspotUp, listening, pending, stream, chan,
          peer_version, peer_mode, wire, cv, cm, output, ret, retries, ui_enabled,
          faults, num_files, index, in_flight, teardown, tasks, cancel_handle,
          files, common_folder, fsize, fkeys, fsent, fread, fout, fstate>>

\* Variable groups, for UNCHANGED.
inputVars == <<version, mode, using_bluetooth, peer>>
netVars == <<profile, hotspotUp>>
tcpVars == <<listening, pending, stream, chan>>
legVars == <<peer_version, peer_mode, wire, cv, cm>>
loopVars == <<num_files, index, in_flight>>
\* The variables of the session between the two endpoints.
sessionVars == <<version, mode, using_bluetooth, peer, pc, hosting, peer_resource,
                 hotspot, ssid, profile, hotspotUp, listening, pending, stream,
                 chan, peer_version, peer_mode, wire, cv, cm, output, ret, retries,
                 ui_enabled, faults, num_files, index, in_flight, teardown,
                 tasks, cancel_handle>>
\* The variables of the computations followed on their own.
folderVars == <<files, common_folder>>
fileVars == <<fsize, fkeys, fsent, fread, fout, fstate>>
aloneVars == <<folderVars, fileVars>>
\* What most steps of a session leave alone.
restVars == <<aloneVars, loopVars, cancel_handle, teardown>>

\* ------------------------------------------------------------------- Init
\* Transfer::new: both slots None.  No task is running yet.  Endpoint "a"
\* runs this build, endpoint "b" a build of the same protocol whose
\* MAJOR_VERSION may be older or newer: which, is settled when "b" first
\* uses it, in its write of the version.
Idle ==
    /\ version = [e \in Endpoints |-> IF e = "a" THEN MAJOR_VERSION ELSE -1]
    /\ mode = [e \in Endpoints |-> "none"]
    /\ using_bluetooth = [e \in Endpoints |-> FALSE]
    /\ peer = [e \in Endpoints |-> "none"]
    /\ pc = [e \in Endpoints |-> "idle"]
    /\ hosting = [e \in Endpoints |-> "undecided"]
    /\ peer_resource = [e \in Endpoints |-> "none"]
    /\ hotspot = [e \in Endpoints |-> "None"]
    /\ ssid = [e \in Endpoints |-> "None"]
    /\ profile = [e \in Endpoints |-> FALSE]
    /\ hotspotUp = [e \in Endpoints |-> FALSE]
    /\ listening = [e \in Endpoints |-> FALSE]
    /\ pending = [e \in Endpoints |-> FALSE]
    /\ stream = [e \in Endpoints |-> "none"]
    /\ chan = [e \in Endpoints |-> <<>>]
    /\ peer_version = [e \in Endpoints |-> -1]
    /\ peer_mode = [e \in Endpoints |-> -1]
    /\ wire = [e \in Endpoints |-> <<>>]
    /\ cv = [e \in Endpoints |-> "none"]
    /\ cm = [e \in Endpoints |-> "none"]
    /\ output = [e \in Endpoints |-> <<>>]
    /\ ret = [e \in Endpoints |-> "running"]
    /\ retries = [e \in Endpoints |-> 0]
    /\ ui_enabled = [e \in Endpoints |-> FALSE]
    /\ faults = 0
    /\ num_files = [e \in Endpoints |-> -1]
    /\ index = [e \in Endpoints |-> 0]
    /\ in_flight = [e \in Endpoints |-> <<-1, -1>>]
    /\ teardown = [e \in Endpoints |-> <<>>]
    /\ tasks = [e \in Endpoints |-> 0]
    /\ cancel_handle = [e \in Endpoints |-> "None"]

\* No list of files is being looked at on its own.
NoFolder ==
    /\ files = <<>>
    /\ common_folder = <<"unset">>

\* No file is being sent on its own.
NoFile ==
    /\ fsize = -1
    /\ fkeys = <<"none", "none">>
    /\ fsent = <<>>
    /\ fread = 0
    /\ fout = <<>>
    /\ fstate = "reading"

Init ==
    /\ Idle
    /\ NoFolder
    /\ NoFile

\* ---------------------------------------------------------------- helpers
\* ui.output(msg)
Out(e, msg) == [output EXCEPT ![e] = Append(@, msg)]

\* A completed stream operation: op is "w" or "r", what names the field.
Op(op, what, val) == [op |-> op, what |-> what, val |-> val]
Logged(e, op, what, val) == [wire EXCEPT ![e] = Append(@, Op(op, what, val))]

\* stream.write_u64(val) by e: the value travels to the other endpoint.
Sent(e, val) == [chan EXCEPT ![Other(e)] = Append(@, val)]
\* stream.read_u64() by e: the oldest value in flight, once there is one.
CanRead(e) == chan[e] # <<>>
\* Received with the value looked at and left in the stream.
ReceivedPeeked(e) == chan
Received(e) == [chan EXCEPT ![e] = Tail(@)]

\* An Err(e) that start_transfer reports and returns on: one ui.output of
\* "<label>: <detail>", then return r (None or Some(stream)).
ReturnsAfter(e, before, label, detail, r) ==
    /\ output' = [output EXCEPT ![e] = (@ \o before) \o << <<label, detail>> >>]
    /\ ret' = [ret EXCEPT ![e] = r]
    /\ tasks' = [tasks EXCEPT ![e] = @ - 1]
    /\ pc' = [pc EXCEPT ![e] = "returned"]

Returns(e, label, detail, r) ==
    /\ output' = Out(e, <<label, detail>>)
    /\ ret' = [ret EXCEPT ![e] = r]
    /\ tasks' = [tasks EXCEPT ![e] = @ - 1]
    /\ pc' = [pc EXCEPT ![e] = "returned"]

\* The other end of e's connection is gone: its stream was shut down, or
\* its task ended without ever taking the connection.
PeerGone(e) == stream[Other(e)] = "shutdown" \/ ret[Other(e)] \in {"None", "Aborted"}

\* --------------------------------------------------- linux/network.rs
is_hosting(p, m) ==
    CASE p \in {"Android", "IOS", "MacOS"} -> TRUE
      [] p = "Windows" -> FALSE
      [] p = "Linux" -> (m = "Receive")

\* ------------------------------------------------------- the outer context
\* StartAllowed with every start request taken.
StartAlways(e) == TRUE

\* A start request is taken while no cancellation handle is held.  The handle
\* is held from the request on, so a process runs one session.
StartAllowed(e) == cancel_handle[e] = "None"

\* ------------------------------------------------- start_transfer, setup
\* start_transfer is called: the mode is parsed; without Bluetooth the SSID
\* derived from the password is put in the SSID slot before connect_to_peer.
BeginTransfer(e) ==
    /\ StartAllowed(e)
    /\ tasks' = [tasks EXCEPT ![e] = @ + 1]
    /\ cancel_handle' = [cancel_handle EXCEPT ![e] = "Some"]
    /\ \E m \in Mode, bt \in BOOLEAN :
        \E p \in (IF bt THEN {"none"} ELSE PeersTried) :
            /\ mode' = [mode EXCEPT ![e] = m]
            /\ using_bluetooth' = [using_bluetooth EXCEPT ![e] = bt]
            /\ peer' = [peer EXCEPT ![e] = p]
            /\ ssid' = IF bt THEN ssid ELSE [ssid EXCEPT ![e] = "Some"]
            /\ pc' = [pc EXCEPT ![e] =
                        IF bt THEN "negotiate_bluetooth" ELSE "connect_to_peer"]
    /\ UNCHANGED <<aloneVars, loopVars, teardown, version, hosting, peer_resource,
                   hotspot, netVars, tcpVars, legVars, output, ret, retries,
                   ui_enabled, faults>>

\* negotiate_bluetooth (bluetooth.rs): it is handed the SSID slot but not the
\* hotspot slot, brings the hotspot up or joins the peer's, and yields the
\* PeerResource; or it fails and start_transfer returns None.
NegotiateBluetooth(e) ==
    /\ pc[e] = "negotiate_bluetooth"
    /\ \/ \E pr \in PeerResource :
            /\ pr = "WifiClient" => hotspotUp[Other(e)]
            /\ peer_resource' = [peer_resource EXCEPT ![e] = pr]
            /\ ssid' = [ssid EXCEPT ![e] = "Some"]
            /\ profile' = [profile EXCEPT ![e] = TRUE]
            /\ hotspotUp' = [hotspotUp EXCEPT ![e] = (pr # "WifiClient")]
            /\ pc' = [pc EXCEPT ![e] = "yield_now"]
            /\ UNCHANGED <<output, ret, tasks>>
       \/ /\ \E s \in {"None", "Some"} : ssid' = [ssid EXCEPT ![e] = s]
          /\ Returns(e, "Could not establish Bluetooth connection", "bluetooth", "None")
          /\ UNCHANGED <<peer_resource, profile, hotspotUp>>
    /\ UNCHANGED <<restVars, inputVars, hosting, hotspot, tcpVars, legVars, retries,
                   ui_enabled, faults>>

\* connect_to_peer up to its first suspension: is_hosting picks the branch;
\* the host runs start_hotspot's nmcli commands and holds LinuxHotspot, the
\* joiner runs join_hotspot's three profile commands and goes on to "con up".
ConnectToPeer(e) ==
    /\ pc[e] = "connect_to_peer"
    /\ IF is_hosting(peer[e], mode[e])
       THEN /\ output' = Out(e, <<"Starting hotspot", "ssid">>)
            /\ hosting' = [hosting EXCEPT ![e] = "host"]
            /\ hotspotUp' = [hotspotUp EXCEPT ![e] = TRUE]
            /\ peer_resource' = [peer_resource EXCEPT ![e] = "LinuxHotspot"]
            /\ pc' = [pc EXCEPT ![e] = "yield_now"]
       ELSE /\ output' = Out(e, <<"Joining hotspot", "ssid">>)
            /\ hosting' = [hosting EXCEPT ![e] = "join"]
            /\ pc' = [pc EXCEPT ![e] = "join_up"]
            /\ UNCHANGED <<hotspotUp, peer_resource>>
    /\ profile' = [profile EXCEPT ![e] = TRUE]
    /\ UNCHANGED <<restVars, inputVars, hotspot, ssid, tcpVars, legVars, ret, tasks, retries,
                   ui_enabled, faults>>

\* ConUpFailed with the failure passed up as join_hotspot's Err.
ConUpFailedReturnsErr(e) ==
    /\ Returns(e, "Error connecting to peer", "Error joining hotspot", "None")
    /\ UNCHANGED retries

\* "nmcli con up" has failed: join_hotspot reports it with "Retrying.",
\* sleeps 1 s and tries again.
ConUpFailed(e) ==
    /\ retries[e] < MaxRetries
    /\ retries' = [retries EXCEPT ![e] = @ + 1]
    /\ output' = Out(e, <<"Error joining hotspot", "Retrying.">>)
    /\ UNCHANGED <<pc, ret, tasks>>

\* join_hotspot's loop: "nmcli con up <ssid>" succeeds only once the peer's
\* access point is up; a failed attempt is reported and retried after 1 s.
JoinUp(e) ==
    /\ pc[e] = "join_up"
    /\ \/ /\ hotspotUp[Other(e)]
          /\ pc' = [pc EXCEPT ![e] = "find_gateway"]
          /\ UNCHANGED <<output, retries, ret, tasks>>
       \/ ConUpFailed(e)
    /\ UNCHANGED <<restVars, inputVars, hosting, peer_resource, hotspot, ssid, netVars,
                   tcpVars, legVars, ui_enabled, faults>>

\* connect_to_peer's gateway loop: once find_gateway yields a non-empty
\* address the joiner holds WifiClient(gateway).  (An empty answer sleeps
\* 200 ms and asks again: no state changes.)
FindGateway(e) ==
    /\ pc[e] = "find_gateway"
    /\ peer_resource' = [peer_resource EXCEPT ![e] = "WifiClient"]
    /\ pc' = [pc EXCEPT ![e] = "yield_now"]
    /\ UNCHANGED <<restVars, inputVars, hosting, hotspot, ssid, netVars, tcpVars, legVars,
                   output, ret, tasks, retries, ui_enabled, faults>>

\* A command of start_hotspot or join_hotspot, or find_gateway, fails:
\* connect_to_peer returns Err, start_transfer reports it and returns None.
\* The profile exists unless the failing command was the first "con add".
ConnectToPeerFails(e) ==
    /\ pc[e] \in {"connect_to_peer", "join_up", "find_gateway"}
    /\ faults < MaxFaults
    /\ faults' = faults + 1
    /\ IF pc[e] = "connect_to_peer"
       THEN LET host == is_hosting(peer[e], mode[e]) IN
            /\ hosting' = [hosting EXCEPT ![e] = IF host THEN "host" ELSE "join"]
            /\ \E made \in BOOLEAN : profile' = [profile EXCEPT ![e] = made]
            /\ output' = [output EXCEPT ![e] = @ \o
                 << <<IF host THEN "Starting hotspot" ELSE "Joining hotspot", "ssid">>,
                    <<"Error connecting to peer", "command failed">> >>]
       ELSE /\ output' = Out(e, <<"Error connecting to peer", "command failed">>)
            /\ UNCHANGED <<hosting, profile>>
    /\ ret' = [ret EXCEPT ![e] = "None"]
    /\ tasks' = [tasks EXCEPT ![e] = @ - 1]
    /\ pc' = [pc EXCEPT ![e] = "returned"]
    /\ UNCHANGED <<restVars, inputVars, peer_resource, hotspot, ssid, hotspotUp, tcpVars,
                   legVars, retries, ui_enabled>>

\* tokio::task::yield_now between hotspot readiness and TCP setup.
YieldNow(e) ==
    /\ pc[e] = "yield_now"
    /\ pc' = [pc EXCEPT ![e] = "start_tcp"]
    /\ UNCHANGED <<restVars, inputVars, hosting, peer_resource, hotspot, ssid, netVars,
                   tcpVars, legVars, output, ret, tasks, retries, ui_enabled, faults>>

\* CvStart with every endpoint reading first.
CvStartReadsFirst(pr) == "cv_read_version"

\* The first stream operation of confirm_version: the match on the
\* PeerResource variant.
CvStart(pr) == IF pr = "WifiClient" THEN "cv_write_version" ELSE "cv_read_version"

\* -------------------------------------------------------------- start_tcp
\* WifiClient connects to gateway:3290: it gets a stream when the peer's
\* listener is bound, and is refused otherwise.  Every other variant binds
\* 0.0.0.0:3290, reports "Waiting for connection..." and goes on to accept.
StartTcp(e) ==
    /\ pc[e] = "start_tcp"
    /\ IF peer_resource[e] = "WifiClient"
       THEN IF listening[Other(e)] /\ ~pending[Other(e)]
            THEN /\ stream' = [stream EXCEPT ![e] = "open"]
                 /\ pending' = [pending EXCEPT ![Other(e)] = TRUE]
                 /\ pc' = [pc EXCEPT ![e] = CvStart(peer_resource[e])]
                 /\ UNCHANGED <<listening, output, ret, tasks>>
            ELSE /\ Returns(e, "Error starting TCP connection", "connection refused", "None")
                 /\ UNCHANGED <<listening, pending, stream>>
       ELSE /\ listening' = [listening EXCEPT ![e] = TRUE]
            /\ output' = Out(e, <<"Waiting for connection...", "">>)
            /\ pc' = [pc EXCEPT ![e] = "accept"]
            /\ UNCHANGED <<pending, stream, ret, tasks>>
    /\ UNCHANGED <<restVars, inputVars, hosting, peer_resource, hotspot, ssid, netVars, chan,
                   legVars, retries, ui_enabled, faults>>

\* listener.accept() returns the one inbound connection; the listener is
\* dropped when start_tcp returns.
Accept(e) ==
    /\ pc[e] = "accept"
    /\ pending[e]
    /\ pending' = [pending EXCEPT ![e] = FALSE]
    /\ listening' = [listening EXCEPT ![e] = FALSE]
    /\ stream' = [stream EXCEPT ![e] = "open"]
    /\ output' = Out(e, <<"Connection accepted", "">>)
    /\ pc' = [pc EXCEPT ![e] = CvStart(peer_resource[e])]
    /\ UNCHANGED <<restVars, inputVars, hosting, peer_resource, hotspot, ssid, netVars, chan,
                   legVars, ret, tasks, retries, ui_enabled, faults>>

\* StartTcpFails with Some(stream) returned, as after a later failure.
StartTcpFailsWithSome(e) ==
    /\ pc[e] \in {"start_tcp", "accept"}
    /\ faults < MaxFaults
    /\ faults' = faults + 1
    /\ listening' = [listening EXCEPT ![e] = FALSE]
    /\ Returns(e, "Error starting TCP connection", "io", "Some")
    /\ UNCHANGED <<restVars, inputVars, hosting, peer_resource, hotspot, ssid, netVars,
                   pending, stream, chan, legVars, retries, ui_enabled>>

\* connect, bind or accept fails: start_tcp returns Err, start_transfer
\* reports it and returns None; a bound listener is dropped.
StartTcpFails(e) ==
    /\ pc[e] \in {"start_tcp", "accept"}
    /\ faults < MaxFaults
    /\ faults' = faults + 1
    /\ listening' = [listening EXCEPT ![e] = FALSE]
    /\ Returns(e, "Error starting TCP connection", "io", "None")
    /\ UNCHANGED <<restVars, inputVars, hosting, peer_resource, hotspot, ssid, netVars,
                   pending, stream, chan, legVars, retries, ui_enabled>>

\* ------------------------------------------------------ confirm_version
\* The rulings utils::is_compatible(peer_version) can give.
CompatibilityRulings == BOOLEAN

\* CvArbiter with a verdict exchanged on equal versions too.
CvArbiterOnEqual(v, pv) ==
    IF pv <= v THEN "write" ELSE "read"

\* CvArbiter with the comparison turned round: the lower version rules.
CvArbiterLower(v, pv) ==
    IF pv > v THEN "write" ELSE IF pv < v THEN "read" ELSE "none"

\* Who rules after the exchange: "write" (we make the decision), "read" (the
\* peer makes it) or "none" (versions match, implicitly compatible).
CvArbiter(v, pv) ==
    IF pv < v THEN "write" ELSE IF pv > v THEN "read" ELSE "none"

\* CvVerdict reporting compatible whatever the ruling.
CvVerdictAlwaysOne(compatible) == 1

\* The verdict the arbiter puts on the wire.
CvVerdict(compatible) == IF compatible THEN 1 ELSE 0

\* CmStart with only LinuxHotspot taken for a host.
CmStartLinuxOnly(pr) == IF pr # "LinuxHotspot" THEN "cm_write_mode" ELSE "cm_read_mode"

\* The first stream operation of confirm_mode: the match on the variant.
CmStart(pr) == IF pr = "WifiClient" THEN "cm_write_mode" ELSE "cm_read_mode"

PleaseUpdate == "Peer's version not compatible, please update Flying Carpet to the latest version on both devices."

\* Both versions are known to e: the branch on peer_version.  With equal
\* versions confirm_version returns Ok and confirm_mode begins.
AfterExchange(e, v, pv) ==
    LET a == CvArbiter(v, pv) IN
    /\ pc' = [pc EXCEPT ![e] =
                CASE a = "write" -> "cv_write_verdict"
                  [] a = "read" -> "cv_read_verdict"
                  [] OTHER -> CmStart(peer_resource[e])]
    /\ cv' = [cv EXCEPT ![e] = IF a = "none" THEN "Ok" ELSE @]

\* stream.write_u64(MAJOR_VERSION): the connector's first operation, the
\* host's second.
CvWriteVersion(e) ==
    /\ pc[e] = "cv_write_version"
    /\ \E v \in (IF version[e] = -1 THEN Versions ELSE {version[e]}) :
        /\ version' = [version EXCEPT ![e] = v]
        /\ chan' = Sent(e, v)
        /\ wire' = Logged(e, "w", "version", v)
        /\ IF peer_resource[e] = "WifiClient"
           THEN /\ pc' = [pc EXCEPT ![e] = "cv_read_version"]
                /\ UNCHANGED cv
           ELSE AfterExchange(e, v, peer_version[e])
    /\ UNCHANGED <<restVars, mode, using_bluetooth, peer, hosting, peer_resource, hotspot, ssid, netVars,
                   listening, pending, stream, peer_version, peer_mode, cm, output,
                   ret, tasks, retries, ui_enabled, faults>>

\* stream.read_u64() of the peer's version: the host's first operation, the
\* connector's second.
CvReadVersion(e) ==
    /\ pc[e] = "cv_read_version"
    /\ CanRead(e)
    /\ LET pv == Head(chan[e]) IN
        /\ peer_version' = [peer_version EXCEPT ![e] = pv]
        /\ wire' = Logged(e, "r", "version", pv)
        /\ IF peer_resource[e] = "WifiClient"
           THEN AfterExchange(e, version[e], pv)
           ELSE /\ pc' = [pc EXCEPT ![e] = "cv_write_version"]
                /\ UNCHANGED cv
    /\ chan' = Received(e)
    /\ UNCHANGED <<restVars, inputVars, hosting, peer_resource, hotspot, ssid, netVars,
                   listening, pending, stream, peer_mode, cm, output, ret, tasks, retries,
                   ui_enabled, faults>>

\* peer_version < MAJOR_VERSION: we make the decision, write it, and fail
\* after writing 0.
CvWriteVerdict(e) ==
    /\ pc[e] = "cv_write_verdict"
    /\ \E compatible \in CompatibilityRulings :
        /\ chan' = Sent(e, CvVerdict(compatible))
        /\ wire' = Logged(e, "w", "verdict", CvVerdict(compatible))
        /\ IF compatible
           THEN /\ cv' = [cv EXCEPT ![e] = "Ok"]
                /\ pc' = [pc EXCEPT ![e] = CmStart(peer_resource[e])]
                /\ UNCHANGED <<output, ret, tasks>>
           ELSE /\ cv' = [cv EXCEPT ![e] = "Err"]
                /\ Returns(e, "Error confirming version", PleaseUpdate, "Some")
    /\ UNCHANGED <<restVars, inputVars, hosting, peer_resource, hotspot, ssid, netVars,
                   listening, pending, stream, peer_version, peer_mode, cm, retries,
                   ui_enabled, faults>>

\* peer_version > MAJOR_VERSION: the peer makes the decision; 0 fails.
CvReadVerdict(e) ==
    /\ pc[e] = "cv_read_verdict"
    /\ CanRead(e)
    /\ LET verdict == Head(chan[e]) IN
        /\ wire' = Logged(e, "r", "verdict", verdict)
        /\ IF verdict = 0
           THEN /\ cv' = [cv EXCEPT ![e] = "Err"]
                /\ Returns(e, "Error confirming version", PleaseUpdate, "Some")
           ELSE /\ cv' = [cv EXCEPT ![e] = "Ok"]
                /\ pc' = [pc EXCEPT ![e] = CmStart(peer_resource[e])]
                /\ UNCHANGED <<output, ret, tasks>>
    /\ chan' = Received(e)
    /\ UNCHANGED <<restVars, inputVars, hosting, peer_resource, hotspot, ssid, netVars,
                   listening, pending, stream, peer_version, peer_mode, cm, retries,
                   ui_enabled, faults>>

\* --------------------------------------------------------- confirm_mode
\* our_mode
ModeCode(m) == IF m = "Send" THEN 1 ELSE 0

\* ModesMatch with the comparison negated.
ModesMatchNegated(pm, our_mode) == pm # our_mode

\* The host's comparison of the code it read with its own.
ModesMatch(pm, our_mode) == pm = our_mode

\* CmVerdict with the two literals swapped.
CmVerdictSwapped(match) == IF match THEN 1 ELSE 0

\* The verdict the host writes: failure (0) to a guest that selected the
\* same mode, success (1) otherwise.
CmVerdict(match) == IF match THEN 0 ELSE 1

\* CmAccepted taking any verdict for success.
CmAcceptedAny(verdict) == verdict \in {0, 1}

\* The connector's test of the host's response.
CmAccepted(verdict) == verdict = 1

BothSelected(our_mode) ==
    IF our_mode = 0 THEN "Both ends of the transfer selected receive"
    ELSE "Both ends of the transfer selected send"

\* HotspotAfterMode storing the PeerResource before the result is looked at.
HotspotStoredEarly(e, result) == [hotspot EXCEPT ![e] = peer_resource[e]]

\* start_transfer after confirm_mode: on Ok the PeerResource is stored in
\* the hotspot slot, on Err the slot is left alone.
HotspotAfterMode(e, result) ==
    IF result = "Ok" THEN [hotspot EXCEPT ![e] = peer_resource[e]] ELSE hotspot

\* StreamStart with the file count left out.
StreamStartSkipsCount(m) == IF m = "Send" THEN "send_file" ELSE "receive_file"

\* The match on the mode after the handshake: the sender writes the number
\* of files, the receiver reads it.
StreamStart(m) == IF m = "Send" THEN "write_num_files" ELSE "read_num_files"

\* confirm_mode returns result to start_transfer, which stores the hotspot
\* and goes on to stream, or reports the error and returns Some(stream).
ModeConfirmed(e, result, detail) ==
    /\ cm' = [cm EXCEPT ![e] = result]
    /\ hotspot' = HotspotAfterMode(e, result)
    /\ IF result = "Ok"
       THEN /\ pc' = [pc EXCEPT ![e] = StreamStart(mode[e])]
            /\ UNCHANGED <<output, ret, tasks>>
       ELSE Returns(e, "Error confirming mode", detail, "Some")

\* The connector tells the host what mode it selected.
CmWriteMode(e) ==
    /\ pc[e] = "cm_write_mode"
    /\ chan' = Sent(e, ModeCode(mode[e]))
    /\ wire' = Logged(e, "w", "mode", ModeCode(mode[e]))
    /\ pc' = [pc EXCEPT ![e] = "cm_read_verdict"]
    /\ UNCHANGED <<restVars, inputVars, hosting, peer_resource, hotspot, ssid, netVars,
                   listening, pending, stream, peer_version, peer_mode, cv, cm,
                   output, ret, tasks, retries, ui_enabled, faults>>

\* The connector waits for the host's response; anything but 1 fails.
CmReadVerdict(e) ==
    /\ pc[e] = "cm_read_verdict"
    /\ CanRead(e)
    /\ LET verdict == Head(chan[e]) IN
        /\ wire' = Logged(e, "r", "mode_verdict", verdict)
        /\ ModeConfirmed(e, IF CmAccepted(verdict) THEN "Ok" ELSE "Err",
                         BothSelected(ModeCode(mode[e])))
    /\ chan' = Received(e)
    /\ UNCHANGED <<restVars, inputVars, hosting, peer_resource, ssid, netVars, listening,
                   pending, stream, peer_version, peer_mode, cv, retries,
                   ui_enabled, faults>>

\* The host waits for the guest to say what mode it selected.
CmReadMode(e) ==
    /\ pc[e] = "cm_read_mode"
    /\ CanRead(e)
    /\ peer_mode' = [peer_mode EXCEPT ![e] = Head(chan[e])]
    /\ wire' = Logged(e, "r", "mode", Head(chan[e]))
    /\ chan' = Received(e)
    /\ pc' = [pc EXCEPT ![e] = "cm_write_verdict"]
    /\ UNCHANGED <<restVars, inputVars, hosting, peer_resource, hotspot, ssid, netVars,
                   listening, pending, stream, peer_version, cv, cm, output, ret, tasks,
                   retries, ui_enabled, faults>>

\* The host compares the guest's mode to its own and reports back: 0 and
\* an error when they match, 1 otherwise.
CmWriteVerdict(e) ==
    /\ pc[e] = "cm_write_verdict"
    /\ LET match == ModesMatch(peer_mode[e], ModeCode(mode[e])) IN
        /\ chan' = Sent(e, CmVerdict(match))
        /\ wire' = Logged(e, "w", "mode_verdict", CmVerdict(match))
        /\ ModeConfirmed(e, IF match THEN "Err" ELSE "Ok",
                         BothSelected(ModeCode(mode[e])))
    /\ UNCHANGED <<restVars, inputVars, hosting, peer_resource, ssid, netVars, listening,
                   pending, stream, peer_version, peer_mode, cv, retries,
                   ui_enabled, faults>>

\* ------------------------------------------------- start_transfer, streaming
Divider == <<"=========================", "">>
\* "Sending file i of n" / "Receiving file i of n".
Banner(verb, i, n) == << Divider, <<verb, ToString(i) \o " of " \o ToString(n)>> >>

\* The end of start_transfer once the loop is over.
Complete(e) ==
    /\ output' = [output EXCEPT ![e] = @ \o <<Divider, <<"Transfer complete", "">> >>]
    /\ ret' = [ret EXCEPT ![e] = "Some"]
    /\ tasks' = [tasks EXCEPT ![e] = @ - 1]
    /\ pc' = [pc EXCEPT ![e] = "returned"]

\* The sender tells the receiver how many files are coming.
WriteNumFiles(e) ==
    /\ pc[e] = "write_num_files"
    /\ \E n \in 1..MaxFiles :
        /\ num_files' = [num_files EXCEPT ![e] = n]
        /\ chan' = Sent(e, n)
        /\ in_flight' = [in_flight EXCEPT ![e] = <<Len(chan[e]), Len(chan[Other(e)])>>]
        /\ wire' = Logged(e, "w", "num_files", n)
    /\ pc' = [pc EXCEPT ![e] = "send_file"]
    /\ UNCHANGED <<aloneVars, cancel_handle, teardown, inputVars, hosting,
                   peer_resource, hotspot, ssid, netVars, listening, pending,
                   stream, peer_version, peer_mode, cv, cm, output, ret, tasks,
                   retries, ui_enabled, faults, index>>

\* LastSent with the acknowledgement awaited after every file.
LastSentEvery(i, n) == TRUE

\* send_file (sending.rs) reads the receiver's acknowledgement once the
\* last file of the list is out.
LastSent(i, n) == i = n

\* One iteration of the sender's loop: the banner, then send_file puts the
\* file's frames on the stream; after the last file it waits for the
\* acknowledgement.
SendFile(e) ==
    /\ pc[e] = "send_file"
    /\ index[e] < num_files[e]
    /\ LET i == index[e] + 1 IN
        /\ output' = [output EXCEPT ![e] = @ \o Banner("Sending file", i, num_files[e])]
        /\ chan' = Sent(e, i)
        /\ wire' = Logged(e, "w", "file", i)
        /\ index' = [index EXCEPT ![e] = i]
        /\ pc' = [pc EXCEPT ![e] = IF LastSent(i, num_files[e]) THEN "read_ack"
                                   ELSE "send_file"]
    /\ UNCHANGED <<aloneVars, cancel_handle, teardown, inputVars, hosting,
                   peer_resource, hotspot, ssid, netVars, listening, pending,
                   stream, peer_version, peer_mode, cv, cm, ret, tasks, retries,
                   ui_enabled, faults, num_files, in_flight>>

\* The sender has the acknowledgement: send_file returns, the loop goes on
\* or is over.
ReadAck(e) ==
    /\ pc[e] = "read_ack"
    /\ CanRead(e)
    /\ wire' = Logged(e, "r", "ack", Head(chan[e]))
    /\ chan' = Received(e)
    /\ IF index[e] < num_files[e]
       THEN /\ pc' = [pc EXCEPT ![e] = "send_file"]
            /\ UNCHANGED <<output, ret, tasks>>
       ELSE Complete(e)
    /\ UNCHANGED <<aloneVars, cancel_handle, teardown, inputVars, hosting,
                   peer_resource, hotspot, ssid, netVars, listening, pending,
                   stream, peer_version, peer_mode, cv, cm, retries, ui_enabled,
                   faults, num_files, index, in_flight>>

\* The receiver learns how many files are coming; with none the loop is
\* over at once.
ReadNumFiles(e) ==
    /\ pc[e] = "read_num_files"
    /\ CanRead(e)
    /\ num_files' = [num_files EXCEPT ![e] = Head(chan[e])]
    /\ wire' = Logged(e, "r", "num_files", Head(chan[e]))
    /\ chan' = Received(e)
    /\ IF 0 < Head(chan[e])
       THEN /\ pc' = [pc EXCEPT ![e] = "receive_file"]
            /\ UNCHANGED <<output, ret, tasks>>
       ELSE Complete(e)
    /\ UNCHANGED <<aloneVars, cancel_handle, teardown, inputVars, hosting,
                   peer_resource, hotspot, ssid, netVars, listening, pending,
                   stream, peer_version, peer_mode, cv, cm, retries, ui_enabled,
                   faults, index, in_flight>>

\* last_file with the flag raised one iteration early.
last_file_early(i, n) == i + 1 = n - 1

\* let last_file = i == num_files - 1, for the loop's 0-based i.
last_file(i, n) == i = n - 1

\* The iterations the receiver's loop runs: for i in 0..num_files.
Iterations(n) == 0..(n - 1)

\* One iteration of the receiver's loop: the banner, then receive_file
\* (receiving.rs) takes the file's frames off the stream and, told that
\* this is the last file, writes the acknowledgement 1.
ReceiveFile(e) ==
    /\ pc[e] = "receive_file"
    /\ index[e] \in Iterations(num_files[e])
    /\ CanRead(e)
    /\ LET i == index[e]
           acked == last_file(i, num_files[e])
       IN
        /\ chan' = IF acked THEN [Received(e) EXCEPT ![Other(e)] = Append(@, 1)]
                   ELSE Received(e)
        /\ wire' = [wire EXCEPT ![e] = (@ \o <<Op("r", "file", Head(chan[e]))>>) \o
                        (IF acked THEN <<Op("w", "ack", 1)>> ELSE <<>>)]
        /\ index' = [index EXCEPT ![e] = i + 1]
        /\ IF i + 1 \in Iterations(num_files[e])
           THEN /\ output' = [output EXCEPT ![e] = @ \o
                                Banner("Receiving file", i + 1, num_files[e])]
                /\ UNCHANGED <<ret, tasks, pc>>
           ELSE /\ output' = [output EXCEPT ![e] = (@ \o
                                Banner("Receiving file", i + 1, num_files[e])) \o
                                <<Divider, <<"Transfer complete", "">> >>]
                /\ ret' = [ret EXCEPT ![e] = "Some"]
                /\ tasks' = [tasks EXCEPT ![e] = @ - 1]
                /\ pc' = [pc EXCEPT ![e] = "returned"]
    /\ UNCHANGED <<aloneVars, cancel_handle, teardown, inputVars, hosting,
                   peer_resource, hotspot, ssid, netVars, listening, pending,
                   stream, peer_version, peer_mode, cv, cm, retries, ui_enabled,
                   faults, num_files, in_flight>>

\* ------------------------------------------- start_transfer, common folder
\* A path is the sequence of its components, the root "/" being one.
ListedPaths == { <<"/", "a", "b", "c.txt">>, <<"/", "a", "b", "d.txt">>,
                 <<"/", "a", "e.txt">>, <<"/", "x", "y.txt">>, <<"/", "f.txt">>,
                 <<"g.txt">> }
FileLists == UNION { [1..n -> ListedPaths] : n \in 1..MaxListed }

\* file.parent().or(Some(Path::new(""))).unwrap(): the path without its
\* last component; "" for a path that has no parent.
Parent(p) == IF p = <<>> THEN <<>> ELSE SubSeq(p, 1, Len(p) - 1)

\* Shorter with a parent of as many components taking the incumbent's place.
ShorterOrEqual(current, common) == Len(current) <= Len(common)

\* current_len < common_len, on the counts of components.
Shorter(current, common) == Len(current) < Len(common)

\* The loop over the files after the first: a parent with fewer components
\* than the incumbent takes its place.
RECURSIVE ShortestFrom(_, _, _)
ShortestFrom(fs, i, common) ==
    IF i > Len(fs) THEN common
    ELSE ShortestFrom(fs, i + 1,
            IF Shorter(Parent(fs[i]), common) THEN Parent(fs[i]) ELSE common)

\* common_folder as start_transfer computes it for a list that has a first
\* file.
CommonFolder(fs) == ShortestFrom(fs, 2, Parent(fs[1]))

\* The sender is given a list of files.
InitFolder ==
    /\ Idle
    /\ NoFile
    /\ files \in FileLists
    /\ common_folder = <<"unset">>

\* start_transfer computes the common folder of the list.
FindCommonFolder ==
    /\ common_folder = <<"unset">>
    /\ common_folder' = CommonFolder(files)
    /\ UNCHANGED <<files, fileVars, sessionVars>>

SpecFolder == InitFolder /\ [][FindCommonFolder]_vars

\* ------------------------------------------- send_file and receive_file
\* The sizes of the files sent: around every multiple of CHUNKSIZE up to
\* MaxChunks chunks, and half a chunk past each.
FileSizes ==
    { k * CHUNKSIZE + r : k \in 0..MaxChunks, r \in {0, 1, CHUNKSIZE \div 2, CHUNKSIZE - 1} }
Keys == {"k1", "k2"}

\* A frame on the stream.  The header carries the path and the size; a
\* data frame the bytes [from, from + len) of the file, sealed with the
\* sender's key; the terminator is a ciphertext length of 0.
Frame(kind, from, len, key) == [kind |-> kind, from |-> from, len |-> len, key |-> key]
\* The bytes send_file has put into data frames so far.
BytesSent ==
    IF fsent = <<>> THEN 0
    ELSE LET f == fsent[Len(fsent)] IN
         f.from + (IF f.kind = "data" THEN f.len ELSE 0)

\* ChunkLen with the last chunk filled up to a whole one.
ChunkLenPadded(remaining) == CHUNKSIZE

\* The plaintext of the next chunk: CHUNKSIZE bytes, or what is left.
ChunkLen(remaining) == IF remaining < CHUNKSIZE THEN remaining ELSE CHUNKSIZE

\* AEAD: a frame opens under the key it was sealed with and no other.
Opens(frame, key) == frame.key = key

\* A file of some size is handed to send_file, and receive_file waits for
\* it, each with the key derived from the password typed at its end.
InitFile ==
    /\ Idle
    /\ NoFolder
    /\ fsize \in FileSizes
    /\ fkeys \in Keys \X Keys
    /\ fsent = <<>>
    /\ fread = 0
    /\ fout = <<>>
    /\ fstate = "reading"

\* send_file writes the header: the relative path and the size.
SendFileDetails ==
    /\ fsent = <<>>
    /\ fsent' = <<Frame("header", 0, fsize, "")>>
    /\ UNCHANGED <<fsize, fkeys, fread, fout, fstate, folderVars, sessionVars>>

\* send_file seals the next chunk of the file and writes it.
SendChunk ==
    /\ fsent # <<>>
    /\ fsent[Len(fsent)].kind # "terminator"
    /\ BytesSent < fsize
    /\ fsent' = Append(fsent, Frame("data", BytesSent, ChunkLen(fsize - BytesSent),
                                    fkeys[1]))
    /\ UNCHANGED <<fsize, fkeys, fread, fout, fstate, folderVars, sessionVars>>

\* The file is out: send_file writes the terminator.
SendTerminator ==
    /\ fsent # <<>>
    /\ fsent[Len(fsent)].kind # "terminator"
    /\ BytesSent >= fsize
    /\ fsent' = Append(fsent, Frame("terminator", BytesSent, 0, ""))
    /\ UNCHANGED <<fsize, fkeys, fread, fout, fstate, folderVars, sessionVars>>

\* receive_file reads the next frame: the header, or a data frame it opens
\* and appends to the file (it fails if the frame does not open), or the
\* terminator, at which the file is complete.
ReceiveFrame ==
    /\ fstate = "reading"
    /\ fread < Len(fsent)
    /\ LET frame == fsent[fread + 1] IN
        /\ fread' = fread + 1
        /\ CASE frame.kind = "header" -> UNCHANGED <<fout, fstate>>
             [] frame.kind = "data" ->
                  IF Opens(frame, fkeys[2])
                  THEN /\ fout' = Append(fout, <<frame.from, frame.len>>)
                       /\ UNCHANGED fstate
                  ELSE /\ fstate' = "failed"
                       /\ UNCHANGED fout
             [] frame.kind = "terminator" ->
                  /\ fstate' = "done"
                  /\ UNCHANGED fout
    /\ UNCHANGED <<fsize, fkeys, fsent, folderVars, sessionVars>>

NextFile == SendFileDetails \/ SendChunk \/ SendTerminator \/ ReceiveFrame

SpecFile == InitFile /\ [][NextFile]_vars

\* ------------------------------------------------- stream failures
VersionPcs == {"cv_write_version", "cv_read_version", "cv_write_verdict",
               "cv_read_verdict"}
ModePcs == {"cm_write_mode", "cm_read_verdict", "cm_read_mode", "cm_write_verdict"}
HandshakePcs == VersionPcs \cup ModePcs
StreamingPcs == {"write_num_files", "send_file", "read_ack", "read_num_files",
                 "receive_file"}
ReadPcs == {"cv_read_version", "cv_read_verdict", "cm_read_verdict", "cm_read_mode"}
StreamReadPcs == {"read_ack", "read_num_files", "receive_file"}

\* StreamingLabel with one label for each side's whole streaming part.
StreamingLabelBySide(p) ==
    IF p \in {"write_num_files", "send_file", "read_ack"}
    THEN "Error sending file" ELSE "Error receiving file"

\* The label start_transfer reports an Err of its streaming part under.
StreamingLabel(p) ==
    CASE p = "write_num_files" -> "Error writing number of files"
      [] p = "read_num_files" -> "Error reading number of files"
      [] p \in {"send_file", "read_ack"} -> "Error sending file"
      [] p = "receive_file" -> "Error receiving file"

\* What the iteration the Err comes from has put out before it: the banner
\* goes out before send_file or receive_file is called.
BannerBefore(e) ==
    CASE pc[e] = "send_file" -> Banner("Sending file", index[e] + 1, num_files[e])
      [] pc[e] = "receive_file" -> Banner("Receiving file", index[e] + 1, num_files[e])
      [] OTHER -> <<>>

\* A stream operation returns Err: the `?` of the leg e is in passes it up
\* and start_transfer reports it under that leg's label, returning
\* Some(stream).
StreamErr(e) ==
    /\ IF pc[e] \in VersionPcs
       THEN /\ cv' = [cv EXCEPT ![e] = "Err"]
            /\ Returns(e, "Error confirming version", "io", "Some")
            /\ UNCHANGED <<cm, hotspot>>
       ELSE IF pc[e] \in ModePcs
       THEN /\ ModeConfirmed(e, "Err", "io")
            /\ UNCHANGED cv
       ELSE /\ ReturnsAfter(e, BannerBefore(e), StreamingLabel(pc[e]), "io", "Some")
            /\ UNCHANGED <<cv, cm, hotspot>>
    /\ UNCHANGED <<restVars, inputVars, hosting, peer_resource, ssid, netVars, tcpVars,
                   peer_version, peer_mode, wire, retries, ui_enabled>>

\* The environment fails a read or write of the stream.
StreamFails(e) ==
    /\ pc[e] \in HandshakePcs \cup StreamingPcs
    /\ faults < MaxFaults
    /\ faults' = faults + 1
    /\ StreamErr(e)

\* A read finds nothing in flight and the other end gone: early eof.
ReadEof(e) ==
    /\ pc[e] \in ReadPcs \cup StreamReadPcs
    /\ ~CanRead(e)
    /\ PeerGone(e)
    /\ UNCHANGED faults
    /\ StreamErr(e)

\* ------------------------------------------------------ clean_up_transfer
\* stop_hotspot looking the connection up by the stored PeerResource.
stop_hotspot_by_resource(e, delete_ok) ==
    IF hotspot[e] # "None" /\ profile[e] /\ delete_ok
    THEN /\ profile' = [profile EXCEPT ![e] = FALSE]
         /\ hotspotUp' = [hotspotUp EXCEPT ![e] = FALSE]
    ELSE UNCHANGED <<profile, hotspotUp>>

\* stop_hotspot: with an SSID whose connection is listed, "nmcli connection
\* delete" removes the profile (and the access point with it) unless it
\* fails; without an SSID, or with an unlisted one, nothing is done.
stop_hotspot(e, delete_ok) ==
    IF ssid[e] = "Some" /\ profile[e] /\ delete_ok
    THEN /\ profile' = [profile EXCEPT ![e] = FALSE]
         /\ hotspotUp' = [hotspotUp EXCEPT ![e] = FALSE]
    ELSE UNCHANGED <<profile, hotspotUp>>

\* TeardownSteps with nothing done unless a stream is handed in.
TeardownStepsOnlyWithStream(e, has_stream, shutdown_ok) ==
    IF has_stream
    THEN << <<"shutdown", IF shutdown_ok THEN "Ok" ELSE "Err">>,
            <<"stop_hotspot", hotspot[e], ssid[e]>>, <<"drop_hotspot">>, <<"enable_ui">> >>
    ELSE <<>>

\* TeardownSteps with a failed shutdown ending clean_up_transfer.
TeardownStepsStopOnError(e, has_stream, shutdown_ok) ==
    IF has_stream /\ ~shutdown_ok
    THEN << <<"shutdown", "Err">> >>
    ELSE (IF has_stream THEN << <<"shutdown", "Ok">> >> ELSE <<>>) \o
         << <<"stop_hotspot", hotspot[e], ssid[e]>>, <<"drop_hotspot">>, <<"enable_ui">> >>

\* The statements of clean_up_transfer, in the order they run: the stream,
\* if there is one, is shut down and a failure only reported;
\* shut_down_hotspot hands the two slots to stop_hotspot and only prints
\* the result; the hotspot slot is set to None; the UI is enabled.
TeardownSteps(e, has_stream, shutdown_ok) ==
    (IF has_stream
     THEN << <<"shutdown", IF shutdown_ok THEN "Ok" ELSE "Err">> >> ELSE <<>>) \o
    << <<"stop_hotspot", hotspot[e], ssid[e]>>, <<"drop_hotspot">>, <<"enable_ui">> >>

Runs(steps, name) == \E i \in 1..Len(steps) : steps[i][1] = name

\* HotspotAfterCleanUp with the slot left as it is.
HotspotKeptByCleanUp(e) == hotspot

\* *hotspot_value = None
HotspotAfterCleanUp(e) == [hotspot EXCEPT ![e] = "None"]

\* clean_up_transfer: the first call is given start_transfer's return, a
\* further call no stream.
clean_up_transfer(e, shutdown_ok, delete_ok) ==
    /\ pc[e] \in {"returned", "cleaned"}
    /\ LET has_stream == pc[e] = "returned" /\ ret[e] = "Some"
           steps == TeardownSteps(e, has_stream, shutdown_ok)
       IN
        /\ has_stream \/ shutdown_ok
        /\ stream' = IF Runs(steps, "shutdown")
                     THEN [stream EXCEPT ![e] = "shutdown"] ELSE stream
        /\ output' = IF has_stream /\ ~shutdown_ok
                     THEN Out(e, <<"Failed to shut down TCP stream.", "">>)
                     ELSE output
        /\ IF Runs(steps, "stop_hotspot") THEN stop_hotspot(e, delete_ok)
           ELSE UNCHANGED <<profile, hotspotUp>>
        /\ hotspot' = IF Runs(steps, "drop_hotspot") THEN HotspotAfterCleanUp(e)
                      ELSE hotspot
        /\ ui_enabled' = IF Runs(steps, "enable_ui")
                         THEN [ui_enabled EXCEPT ![e] = TRUE] ELSE ui_enabled
        /\ teardown' = [teardown EXCEPT ![e] = @ \o steps]
    /\ pc' = [pc EXCEPT ![e] = IF pc[e] = "returned" THEN "cleaned" ELSE "cleaned_twice"]
    /\ UNCHANGED <<aloneVars, loopVars, cancel_handle, inputVars, hosting,
                   peer_resource, ssid, listening, pending, chan, legVars, ret,
                   tasks, retries>>

\* The outer context tears down once start_transfer has returned.
CleanUp(e) ==
    /\ pc[e] = "returned"
    /\ clean_up_transfer(e, TRUE, TRUE)
    /\ UNCHANGED faults

\* The shutdown of the stream or the deletion of the connection fails.
CleanUpFails(e) ==
    /\ pc[e] = "returned"
    /\ faults < MaxFaults
    /\ faults' = faults + 1
    /\ \E shutdown_ok, delete_ok \in BOOLEAN :
        /\ ~(shutdown_ok /\ delete_ok)
        /\ ~delete_ok => (ssid[e] = "Some" /\ profile[e])
        /\ clean_up_transfer(e, shutdown_ok, delete_ok)

\* ------------------------------------------------ requests from outside
\* The outer context calls clean_up_transfer once more, with no stream.
CleanUpAgain(e) ==
    /\ pc[e] = "cleaned"
    /\ clean_up_transfer(e, TRUE, TRUE)
    /\ UNCHANGED faults

\* A cancel request: the handle aborts the session task where it is
\* suspended.  The task's locals are dropped, its stream and listener with
\* them; nothing is returned, and the outer context goes on to tear down
\* with no stream.
Cancel(e) ==
    /\ cancel_handle[e] = "Some"
    /\ ret[e] = "running"
    /\ pc[e] # "connect_to_peer"
    /\ faults < MaxFaults
    /\ faults' = faults + 1
    /\ stream' = [stream EXCEPT ![e] = IF @ = "open" THEN "shutdown" ELSE @]
    /\ listening' = [listening EXCEPT ![e] = FALSE]
    /\ ret' = [ret EXCEPT ![e] = "Aborted"]
    /\ tasks' = [tasks EXCEPT ![e] = @ - 1]
    /\ pc' = [pc EXCEPT ![e] = "returned"]
    /\ UNCHANGED <<restVars, inputVars, hosting, peer_resource, hotspot, ssid, netVars,
                   pending, chan, legVars, output, retries, ui_enabled>>

\* ------------------------------------------------------------------- Next
\* The steps of endpoint e's session when nothing fails underneath it.
Step(e) ==
    \/ BeginTransfer(e)
    \/ NegotiateBluetooth(e)
    \/ ConnectToPeer(e)
    \/ JoinUp(e)
    \/ FindGateway(e)
    \/ YieldNow(e)
    \/ StartTcp(e)
    \/ Accept(e)
    \/ CvWriteVersion(e)
    \/ CvReadVersion(e)
    \/ CvWriteVerdict(e)
    \/ CvReadVerdict(e)
    \/ CmWriteMode(e)
    \/ CmReadVerdict(e)
    \/ CmReadMode(e)
    \/ CmWriteVerdict(e)
    \/ WriteNumFiles(e)
    \/ SendFile(e)
    \/ ReadAck(e)
    \/ ReadNumFiles(e)
    \/ ReceiveFile(e)
    \/ CleanUp(e)

\* The failures the environment can cause, and what follows from them.
Failure(e) ==
    \/ ConnectToPeerFails(e)
    \/ StartTcpFails(e)
    \/ StreamFails(e)
    \/ ReadEof(e)
    \/ CleanUpFails(e)

NextReliable == \E e \in Endpoints : Step(e)

Next == \E e \in Endpoints : Step(e) \/ Failure(e)

Spec == Init /\ [][Next]_vars

\* A session in which failures may or may not happen, with each endpoint's
\* runtime running its task whenever it can take a step.
SpecFair ==
    /\ Init
    /\ [][Next]_vars
    /\ \A e \in Endpoints : WF_vars(Step(e))

\* A session with the requests the outer context can make of it.
NextRequests == Next \/ \E e \in Endpoints : Cancel(e) \/ CleanUpAgain(e)

SpecRequests == Init /\ [][NextRequests]_vars

\* Over a reliable channel, with each endpoint's runtime running its task
\* whenever it can take a step.
SpecReliable ==
    /\ Init
    /\ [][NextReliable]_vars
    /\ \A e \in Endpoints : WF_vars(Step(e))

\* ============================================================ properties
\* The operations of wire[e] on the fields in whats, in order.
OpsOn(e, whats) == SelectSeq(wire[e], LAMBDA o : o.what \in whats)
\* The order of operations ("w"/"r") of a sequence of operations.
Order(ops) == [i \in 1..Len(ops) |-> ops[i].op]
IsPrefix(s, t) == Len(s) <= Len(t) /\ \A i \in 1..Len(s) : s[i] = t[i]
Has(e, op, what, val) == \E i \in 1..Len(wire[e]) : wire[e][i] = Op(op, what, val)
Did(e, op, what) == \E i \in 1..Len(wire[e]) :
    wire[e][i].op = op /\ wire[e][i].what = what
Reported(e, msg) == \E i \in 1..Len(output[e]) : output[e][i] = msg
Ended(e) == pc[e] \in {"returned", "cleaned", "cleaned_twice"}

\* C1: the PeerResource variant fixes the role: a WifiClient never listens
\* or accepts and in each leg writes before it reads; every other variant
\* gets its stream from accept and in each leg reads before it writes.
C1_RoleByVariant ==
    \A e \in Endpoints :
        LET vleg == Order(OpsOn(e, {"version"}))
            mleg == Order(OpsOn(e, {"mode", "mode_verdict"}))
        IN  /\ peer_resource[e] = "none" => wire[e] = <<>> /\ stream[e] = "none"
            /\ peer_resource[e] = "WifiClient" =>
                /\ ~listening[e]
                /\ ~Reported(e, <<"Waiting for connection...", "">>)
                /\ ~Reported(e, <<"Connection accepted", "">>)
                /\ IsPrefix(vleg, <<"w", "r">>)
                /\ IsPrefix(mleg, <<"w", "r">>)
            /\ peer_resource[e] \in {"LinuxHotspot", "WindowsHotspot"} =>
                /\ stream[e] # "none" => Reported(e, <<"Connection accepted", "">>)
                /\ IsPrefix(vleg, <<"r", "w">>)
                /\ IsPrefix(mleg, <<"r", "w">>)

\* A WifiClient and a WindowsHotspot have both been through both legs.
C1_Witness ==
    \E e \in Endpoints :
        /\ peer_resource[e] = "WifiClient"
        /\ peer_resource[Other(e)] = "WindowsHotspot"
        /\ \A x \in Endpoints : Len(OpsOn(x, {"version"})) = 2
                                /\ Len(OpsOn(x, {"mode", "mode_verdict"})) = 2

\* C2: when both sides run the same major version, neither side writes or
\* reads a verdict; a side that has written its version and read the peer's
\* has returned Ok from confirm_version and is past the version leg; the
\* values exchanged are the two versions; and only a failure underneath
\* makes confirm_version fail.
C2_EqualVersionsNoVerdict ==
    version["a"] = version["b"] =>
        \A e \in Endpoints :
            /\ ~Did(e, "w", "verdict") /\ ~Did(e, "r", "verdict")
            /\ Len(OpsOn(e, {"version"})) <= 2
            /\ Len(OpsOn(e, {"version"})) = 2 =>
                /\ Has(e, "w", "version", version[e])
                /\ Has(e, "r", "version", version[Other(e)])
                /\ cv[e] = "Ok"
                /\ pc[e] \in ModePcs \cup StreamingPcs \cup {"returned", "cleaned", "cleaned_twice"}
            /\ cv[e] = "Ok" => Len(OpsOn(e, {"version"})) = 2
            /\ cv[e] = "Err" => faults > 0

\* Two sides of one version are both through confirm_version.
C2_Witness ==
    /\ version["a"] = version["b"]
    /\ \A e \in Endpoints : cv[e] = "Ok" /\ pc[e] \in ModePcs

\* C3: with different versions the verdict is written by the side with the
\* higher version and read by the side with the lower, at most once each,
\* whichever of them is the host; a side that left the version leg with Ok
\* or with a ruling has done exactly that one verdict operation.
C3_HigherVersionRules ==
    \A e \in Endpoints :
        LET verdicts == OpsOn(e, {"verdict"}) IN
        /\ Len(verdicts) <= 1
        /\ Did(e, "w", "verdict") => version[e] > version[Other(e)]
        /\ Did(e, "r", "verdict") => version[e] < version[Other(e)]
        /\ (version[e] # version[Other(e)]
              /\ (cv[e] = "Ok" \/ Reported(e, <<"Error confirming version", PleaseUpdate>>)))
            => /\ Len(verdicts) = 1
               /\ verdicts[1].op = IF version[e] > version[Other(e)] THEN "w" ELSE "r"

\* The host holds the higher version, wrote the verdict, and the connector
\* read it.
C3_Witness ==
    \E e \in Endpoints :
        /\ peer_resource[e] # "WifiClient"
        /\ version[e] > version[Other(e)]
        /\ Did(e, "w", "verdict")
        /\ Did(Other(e), "r", "verdict")

\* C4: a side that wrote or read verdict 0 has failed with the "please
\* update" error, has done nothing of the mode leg, holds no stored
\* PeerResource and is not streaming; a side that wrote or read verdict 1
\* has returned Ok; and when nothing fails underneath, the two sides leave
\* the version leg with the same result.
C4_IncompatibleAbortsBoth ==
    /\ \A e \in Endpoints :
        /\ (Has(e, "w", "verdict", 0) \/ Has(e, "r", "verdict", 0)) =>
            /\ cv[e] = "Err"
            /\ Reported(e, <<"Error confirming version", PleaseUpdate>>)
            /\ OpsOn(e, {"mode", "mode_verdict"}) = <<>>
            /\ cm[e] = "none"
            /\ hotspot[e] = "None"
            /\ Ended(e) /\ ret[e] = "Some"
        /\ (Has(e, "w", "verdict", 1) \/ Has(e, "r", "verdict", 1)) => cv[e] = "Ok"
        /\ Has(e, "r", "verdict", 0) => Has(Other(e), "w", "verdict", 0)
    /\ (faults = 0 /\ \A e \in Endpoints : cv[e] # "none") => cv["a"] = cv["b"]

\* The arbiter wrote 0, the other side read it, both failed.
C4_Witness ==
    \E e \in Endpoints :
        /\ Has(e, "w", "verdict", 0)
        /\ Has(Other(e), "r", "verdict", 0)
        /\ cv[e] = "Err" /\ cv[Other(e)] = "Err"

\* C5: the mode code on the wire is 1 for send and 0 for receive; only the
\* connector writes a code and only the host writes a mode verdict; the
\* verdict is 1 exactly when the code the host read differs from the host's
\* own code, and 0 exactly when they are equal.
C5_ModeVerdict ==
    \A e \in Endpoints : \A i \in 1..Len(wire[e]) :
        LET o == wire[e][i]
            own == IF mode[e] = "Send" THEN 1 ELSE 0
        IN  /\ (o.what = "mode" /\ o.op = "w") =>
                /\ peer_resource[e] = "WifiClient"
                /\ o.val = own
            /\ (o.what = "mode" /\ o.op = "r") =>
                /\ peer_resource[e] # "WifiClient"
                /\ o.val = peer_mode[e]
            /\ (o.what = "mode_verdict" /\ o.op = "w") =>
                /\ peer_resource[e] # "WifiClient"
                /\ Did(e, "r", "mode")
                /\ o.val \in {0, 1}
                /\ o.val = 1 <=> peer_mode[e] # own
                /\ o.val = 0 <=> peer_mode[e] = own
            /\ (o.what = "mode_verdict" /\ o.op = "r") =>
                peer_resource[e] = "WifiClient"

\* A host has written verdict 1 to a connector whose code differed.
C5_Witness ==
    \E e \in Endpoints :
        /\ Has(e, "w", "mode_verdict", 1)
        /\ mode[e] # mode[Other(e)]
        /\ Has(Other(e), "r", "mode_verdict", 1)

\* C6: when both sides selected the same mode, every mode verdict written
\* (by the host) or read (by the connector) is 0, the side that wrote or
\* read it has ended with "Error confirming mode: Both ends of the transfer
\* selected send" (or "receive", its own mode) and returned Some(stream),
\* and neither side returns Ok from confirm_mode or reaches streaming.
C6_SameModeFails ==
    (mode["a"] = mode["b"] /\ mode["a"] # "none") =>
        \A e \in Endpoints :
            /\ cm[e] # "Ok"
            /\ pc[e] \notin StreamingPcs
            /\ ~Reported(e, <<"Transfer complete", "">>)
            /\ ~Has(e, "w", "mode_verdict", 1) /\ ~Has(e, "r", "mode_verdict", 1)
            /\ (Did(e, "w", "mode_verdict") \/ Did(e, "r", "mode_verdict")) =>
                /\ cm[e] = "Err"
                /\ Ended(e) /\ ret[e] = "Some"
                /\ Reported(e, <<"Error confirming mode",
                        IF mode[e] = "Send"
                        THEN "Both ends of the transfer selected send"
                        ELSE "Both ends of the transfer selected receive">>)

\* Both selected send; the host wrote 0, the connector read 0, both failed.
C6_Witness ==
    \E e \in Endpoints :
        /\ mode[e] = "Send" /\ mode[Other(e)] = "Send"
        /\ Has(e, "w", "mode_verdict", 0)
        /\ Has(Other(e), "r", "mode_verdict", 0)
        /\ cm[e] = "Err" /\ cm[Other(e)] = "Err"

\* C7: when confirm_version and confirm_mode have returned Ok on both
\* endpoints, one endpoint is in Send and the other in Receive; two
\* endpoints in the streaming phase never have the same mode.
C7_OneSenderOneReceiver ==
    /\ (\A e \in Endpoints : cv[e] = "Ok" /\ cm[e] = "Ok") =>
        {mode["a"], mode["b"]} = {"Send", "Receive"}
    /\ (\A e \in Endpoints : pc[e] \in StreamingPcs) => mode["a"] # mode["b"]

\* Both endpoints are in the streaming phase.
C7_Witness ==
    /\ \A e \in Endpoints : cv[e] = "Ok" /\ cm[e] = "Ok" /\ pc[e] \in StreamingPcs
    /\ version["a"] # version["b"]

\* Both sides wait in a handshake read and nothing is in flight to either.
MutualRead == \A e \in Endpoints : pc[e] \in ReadPcs /\ ~CanRead(e)
\* The connector's connect has succeeded.
Connected == \E e \in Endpoints : stream[e] = "open" /\ peer_resource[e] = "WifiClient"
\* Both sides have left the handshake, with Ok from both legs or an error.
HandshakeOver ==
    \A e \in Endpoints :
        /\ pc[e] \notin HandshakePcs \cup {"accept"}
        /\ cv[e] = "Err" \/ (cv[e] = "Ok" /\ cm[e] \in {"Ok", "Err"})

\* C8: over a reliable channel the two sides are never both in a handshake
\* read with nothing in flight towards either, and once a connection is made
\* both sides leave the handshake, each with Ok from both legs or with an
\* error.
C8_NoMutualReadDeadlock ==
    /\ [](~MutualRead)
    /\ Connected ~> HandshakeOver

\* A handshake with a version ruling and a mode ruling has ended on both
\* sides.
C8_Witness ==
    /\ HandshakeOver
    /\ \E e \in Endpoints : Has(e, "r", "verdict", 1) /\ Did(e, "w", "mode_verdict")

\* C9: of two endpoints that name each other's platform, Linux, exactly one
\* has taken connect_to_peer's hosting branch and the other the joining
\* branch, once both have called is_hosting, whatever their modes.
C9_ExactlyOneHosts ==
    (\A e \in Endpoints : peer[e] = "Linux" /\ hosting[e] # "undecided") =>
        \E e \in Endpoints : hosting[e] = "host" /\ hosting[Other(e)] = "join"

\* C10: the hotspot slot holds a PeerResource only if confirm_version and
\* confirm_mode have both returned Ok in this session; a session that
\* returned without both (Bluetooth, connect_to_peer, start_tcp, version or
\* mode failed) returned with the slot None.
C10_HotspotStoredAfterHandshake ==
    \A e \in Endpoints :
        /\ hotspot[e] # "None" =>
            /\ cv[e] = "Ok" /\ cm[e] = "Ok"
            /\ hotspot[e] = peer_resource[e]
        /\ (pc[e] = "returned" /\ (cv[e] # "Ok" \/ cm[e] # "Ok")) => hotspot[e] = "None"
        /\ ret[e] = "None" => hotspot[e] = "None"

\* One side returned from a failed confirm_mode with the slot None while
\* the other, whose handshake succeeded, holds its PeerResource in the slot.
C10_Witness ==
    \E e \in Endpoints :
        /\ pc[e] = "returned" /\ cm[e] = "Err" /\ hotspot[e] = "None"
        /\ hotspot[Other(e)] # "None"

TornDown(e) == pc[e] \in {"cleaned", "cleaned_twice"}
HandshakeOk(e) == cv[e] = "Ok" /\ cm[e] = "Ok"

StepNames(t) == [i \in 1..Len(t) |-> t[i][1]]
\* The steps of the first clean_up_transfer call of e.
FirstCall(e) ==
    LET n == IF ret[e] = "Some" THEN 4 ELSE 3
    IN  IF Len(teardown[e]) <= n THEN teardown[e] ELSE SubSeq(teardown[e], 1, n)

\* C12: clean_up_transfer, whatever it is given and however its steps turn
\* out, shuts down the stream if there is one, then calls stop_hotspot with
\* the PeerResource and SSID the slots hold, then sets the hotspot slot to
\* None, then calls enable_ui; a failed shutdown or stop_hotspot is only
\* reported; nothing stands in the way of the call once start_transfer has
\* returned, so enable_ui is reached.
C12_TeardownRunsEveryStep ==
    \A e \in Endpoints :
        /\ pc[e] = "returned" => ENABLED CleanUp(e)
        /\ ~TornDown(e) => teardown[e] = <<>> /\ ~ui_enabled[e]
        /\ TornDown(e) =>
            /\ StepNames(FirstCall(e)) =
                    (IF ret[e] = "Some" THEN <<"shutdown">> ELSE <<>>) \o
                    <<"stop_hotspot", "drop_hotspot", "enable_ui">>
            /\ \E i \in 1..Len(FirstCall(e)) :
                    FirstCall(e)[i] =
                        <<"stop_hotspot",
                          IF HandshakeOk(e) THEN peer_resource[e] ELSE "None",
                          ssid[e]>>
            /\ ret[e] = "Some" => stream[e] = "shutdown"
            /\ Reported(e, <<"Failed to shut down TCP stream.", "">>)
                    <=> \E i \in 1..Len(FirstCall(e)) :
                            FirstCall(e)[i] = <<"shutdown", "Err">>
            /\ hotspot[e] = "None"
            /\ ui_enabled[e]

\* A teardown in which the shutdown of the stream failed and the connection
\* was not deleted either: the slot is None and the UI enabled all the same.
C12_Witness ==
    \E e \in Endpoints :
        /\ pc[e] = "cleaned"
        /\ teardown[e][1] = <<"shutdown", "Err">>
        /\ HandshakeOk(e)
        /\ ssid[e] = "Some" /\ profile[e]
        /\ ui_enabled[e]

SecondCall(e) ==
    SubSeq(teardown[e], Len(FirstCall(e)) + 1, Len(teardown[e]))

SetupPcs == {"negotiate_bluetooth", "connect_to_peer", "join_up", "find_gateway",
             "yield_now"}
\* The phase the task of e is in.
PhaseOfPc(e) ==
    CASE pc[e] \in SetupPcs -> 1
      [] pc[e] \in {"start_tcp", "accept"} -> 2
      [] pc[e] \in VersionPcs -> 3
      [] pc[e] \in ModePcs -> 4
      [] pc[e] \in {"write_num_files", "read_num_files"} -> 5
      [] pc[e] \in {"send_file", "receive_file"} -> 6 + index[e]
      [] pc[e] = "read_ack" -> 5 + index[e]
      [] OTHER -> 0
\* The phase a completed stream operation of e belongs to.
PhaseOfOp(e, o) ==
    CASE o.what \in {"version", "verdict"} -> 3
      [] o.what \in {"mode", "mode_verdict"} -> 4
      [] o.what = "num_files" -> 5
      [] o.what = "file" -> 5 + o.val
      [] o.what = "ack" -> 5 + num_files[e]
PhasesOnWire(e) == [i \in 1..Len(wire[e]) |-> PhaseOfOp(e, wire[e][i])]
\* The files moved by e, in order.
FilesOnWire(e) == [i \in 1..Len(OpsOn(e, {"file"})) |-> OpsOn(e, {"file"})[i].val]
\* The labels of the messages start_transfer reports an Err with.
ErrLabels == {"Could not establish Bluetooth connection", "Error connecting to peer",
              "Error starting TCP connection", "Error confirming version",
              "Error confirming mode", "Error writing number of files",
              "Error reading number of files", "Error sending file",
              "Error receiving file"}
ErrsReported(e) == SelectSeq(output[e], LAMBDA m : m[1] \in ErrLabels)

\* C15: a session goes through hotspot setup, TCP setup, version
\* confirmation, mode confirmation, the file count and files 1 to N in that
\* order: the stream operations never step back to an earlier phase or jump
\* over one, the task is never in a phase whose predecessors have not
\* succeeded, a reported error leaves the task ended, and "Transfer
\* complete" is reported only after every phase and all N files.
C15_PhasesInOrder ==
    \A e \in Endpoints :
        LET ph == PhasesOnWire(e)
            at == PhaseOfPc(e)
        IN  /\ ph # <<>> => ph[1] = 3
            /\ \A i \in 1..(Len(ph) - 1) : ph[i + 1] \in {ph[i], ph[i] + 1}
            /\ at \in 1..2 => ph = <<>>
            /\ at >= 3 => IF ph = <<>> THEN at = 3 ELSE ph[Len(ph)] \in {at - 1, at}
            /\ at >= 2 => peer_resource[e] # "none"
            /\ at >= 3 => stream[e] = "open"
            /\ at >= 4 => cv[e] = "Ok"
            /\ at >= 5 => cm[e] = "Ok"
            /\ at >= 6 => num_files[e] >= 0 /\ index[e] <= num_files[e]
            /\ FilesOnWire(e) = [i \in 1..index[e] |-> i]
            /\ ErrsReported(e) # <<>> => pc[e] \in {"returned", "cleaned"}
            /\ Reported(e, <<"Transfer complete", "">>) =>
                /\ pc[e] \in {"returned", "cleaned"}
                /\ ret[e] = "Some"
                /\ ErrsReported(e) = <<>>
                /\ peer_resource[e] # "none"
                /\ HandshakeOk(e)
                /\ Len(OpsOn(e, {"num_files"})) = 1
                /\ index[e] = num_files[e]
                /\ ph[Len(ph)] = 5 + num_files[e]

\* A sender has reported "Transfer complete" after as many files as a list
\* can hold, and its receiver after receiving them.
C15_Witness ==
    \E e \in Endpoints :
        /\ mode[e] = "Send"
        /\ num_files[e] = MaxFiles
        /\ \A x \in Endpoints :
            /\ Reported(x, <<"Transfer complete", "">>)
            /\ FilesOnWire(x) = [i \in 1..MaxFiles |-> i]

\* start_transfer has ended, and not with "Transfer complete".
FailedEnd(e) ==
    /\ pc[e] \in {"returned", "cleaned"}
    /\ ret[e] \in {"None", "Some"}
    /\ ~Reported(e, <<"Transfer complete", "">>)
\* The label of the phase the session of e had reached when it ended, read
\* off what the session had got done by then.
LabelOfPhaseReached(e) ==
    CASE peer_resource[e] = "none" /\ using_bluetooth[e] ->
            "Could not establish Bluetooth connection"
      [] peer_resource[e] = "none" /\ ~using_bluetooth[e] -> "Error connecting to peer"
      [] peer_resource[e] # "none" /\ ret[e] = "None" -> "Error starting TCP connection"
      [] ret[e] = "Some" /\ cv[e] # "Ok" -> "Error confirming version"
      [] ret[e] = "Some" /\ cv[e] = "Ok" /\ cm[e] # "Ok" -> "Error confirming mode"
      [] ret[e] = "Some" /\ HandshakeOk(e) /\ OpsOn(e, {"num_files"}) = <<>> ->
            IF mode[e] = "Send" THEN "Error writing number of files"
            ELSE "Error reading number of files"
      [] OTHER ->
            IF mode[e] = "Send" THEN "Error sending file" ELSE "Error receiving file"
\* The seven phases the claim names.
NamedLabels == ErrLabels \ {"Could not establish Bluetooth connection"}
\* Every message that reports an error, the notices of join_hotspot's
\* retries among them.
AllErrsReported(e) ==
    SelectSeq(output[e], LAMBDA m : m[1] \in ErrLabels \cup {"Error joining hotspot"})

\* C16 as stated: when start_transfer has ended because of a failure,
\* exactly one error message has gone to the UI, and it names one of the
\* seven phases, the one in which the failure occurred.
C16_ExactlyOneErrorOfSevenPhases ==
    \A e \in Endpoints :
        FailedEnd(e) =>
            /\ Len(AllErrsReported(e)) = 1
            /\ AllErrsReported(e)[1][1] \in NamedLabels
            /\ AllErrsReported(e)[1][1] = LabelOfPhaseReached(e)

\* C16: when start_transfer has ended because of a failure, exactly one of
\* its own error messages has gone to the UI, after any "Error joining
\* hotspot ... Retrying." notices of join_hotspot, and it names the phase
\* in which the failure occurred: Bluetooth negotiation, connecting to the
\* peer, starting the TCP connection, confirming version, confirming mode,
\* writing or reading the number of files, sending file, receiving file.
\* A session that has not failed has reported none.
C16_OneErrorNamingThePhase ==
    \A e \in Endpoints :
        /\ FailedEnd(e) =>
            /\ Len(ErrsReported(e)) = 1
            /\ ErrsReported(e)[1][1] = LabelOfPhaseReached(e)
            /\ \A i \in 1..Len(output[e]) :
                output[e][i][1] = "Error joining hotspot" =>
                    \E j \in (i + 1)..Len(output[e]) : output[e][j][1] \in ErrLabels
        /\ ~FailedEnd(e) => ErrsReported(e) = <<>>

\* A joiner whose "con up" was retried has ended on a failed read of the
\* number of files; another session has ended on a failed Bluetooth
\* negotiation.
C16_Witness ==
    \E e \in Endpoints :
        /\ FailedEnd(e)
        /\ Reported(e, <<"Error joining hotspot", "Retrying.">>)
        /\ Reported(e, <<"Error reading number of files", "io">>)
        /\ FailedEnd(Other(e))

ConnectingError(e) ==
    \E i \in 1..Len(output[e]) : output[e][i][1] = "Error connecting to peer"

Parents(fs) == [i \in 1..Len(fs) |-> Parent(fs[i])]
\* The first index of ps whose entry has the fewest components.
FirstShortest(ps) ==
    CHOOSE k \in 1..Len(ps) :
        /\ \A i \in 1..Len(ps) : Len(ps[k]) <= Len(ps[i])
        /\ \A i \in 1..(k - 1) : Len(ps[i]) > Len(ps[k])

\* C18: for every non-empty list the common folder start_transfer computes
\* is the parent of the first file, in list order, whose parent has the
\* fewest components; the lists tried include /a/b/c.txt, /a/b/d.txt,
\* /a/e.txt, for which it is /a.
C18_FirstShortestParent ==
    common_folder # <<"unset">> =>
        /\ common_folder = Parents(files)[FirstShortest(Parents(files))]
        /\ files = << <<"/", "a", "b", "c.txt">>, <<"/", "a", "b", "d.txt">>,
                      <<"/", "a", "e.txt">> >> => common_folder = <<"/", "a">>

\* The common folder of /x/y.txt, /a/b/c.txt, /a/e.txt has been computed:
\* /x, which the later /a ties with and does not replace.
C18_Witness ==
    /\ files = << <<"/", "x", "y.txt">>, <<"/", "a", "b", "c.txt">>,
                  <<"/", "a", "e.txt">> >>
    /\ common_folder = <<"/", "x">>

\* What the streaming part of e has done on the stream, in order.
StreamedOps(e) == OpsOn(e, {"num_files", "file", "ack"})
\* The operations of a whole streaming part of n files on the side that
\* does op on the files and the opposite on the acknowledgement.
WholeStream(op, n) ==
    (<<Op(op, "num_files", n)>> \o [i \in 1..n |-> Op(op, "file", i)]) \o
    (IF n = 0 THEN <<>> ELSE <<Op(IF op = "w" THEN "r" ELSE "w", "ack", 1)>>)

\* C19: the sender writes N once and then runs send_file N times in list
\* order; the receiver reads that N and runs receive_file N times; the
\* receiver's last_file flag is up in exactly one iteration, the N-th, so
\* the one acknowledgement follows file N and nothing else; for N = 0 the
\* loop has no iteration and the flag is never up.
C19_CountThenNFiles ==
    /\ \A n \in 0..MaxFiles :
        /\ Cardinality(Iterations(n)) = n
        /\ {i \in Iterations(n) : last_file(i, n)} = IF n = 0 THEN {} ELSE {n - 1}
    /\ \A e \in Endpoints :
        LET n == num_files[e]
            op == IF mode[e] = "Send" THEN "w" ELSE "r"
        IN  /\ n = -1 => StreamedOps(e) = <<>> /\ index[e] = 0
            /\ n >= 0 =>
                /\ IsPrefix(StreamedOps(e), WholeStream(op, n))
                /\ Len(StreamedOps(e)) >= 1 + index[e]
                /\ index[e] <= n
                /\ mode[e] = "Receive" =>
                    /\ Has(Other(e), "w", "num_files", n)
                    /\ Has(e, "w", "ack", 1) <=> index[e] = n /\ n > 0
                /\ n = 0 => ~Did(e, "w", "ack") /\ ~Did(e, "r", "file")
            /\ Reported(e, <<"Transfer complete", "">>) =>
                n >= 0 /\ StreamedOps(e) = WholeStream(op, n)

\* A receiver has been through a list as long as lists get: the count, the
\* files in order, then the acknowledgement, which the sender has read.
C19_Witness ==
    \E e \in Endpoints :
        /\ mode[e] = "Receive"
        /\ num_files[e] = MaxFiles
        /\ StreamedOps(e) = WholeStream("r", MaxFiles)
        /\ StreamedOps(Other(e)) = WholeStream("w", MaxFiles)

\* The frames of a kind send_file has written.
FramesOf(kind) == SelectSeq(fsent, LAMBDA f : f.kind = kind)
\* The ranges appended to the receiver's file are the bytes 0 .. s - 1 of
\* the sender's file, in order and with none missing or twice.
SameBytes(ranges, s) ==
    /\ \A i \in 1..Len(ranges) :
        ranges[i][1] = (IF i = 1 THEN 0 ELSE ranges[i - 1][1] + ranges[i - 1][2])
    /\ (IF ranges = <<>> THEN 0
        ELSE ranges[Len(ranges)][1] + ranges[Len(ranges)][2]) = s
Ceil(s, c) == (s + c - 1) \div c

\* C20: when send_file has written a whole file of size s and receive_file
\* has read it to the terminator, the receiver's file has the bytes of the
\* sender's, and the sender wrote one header, then ceil(s / CHUNKSIZE) data
\* frames, each of CHUNKSIZE bytes but for a shorter last one, then one
\* terminator; this for s = 0 and for multiples of CHUNKSIZE too.
C20_RoundTrip ==
    fstate = "done" =>
        /\ SameBytes(fout, fsize)
        /\ Len(FramesOf("header")) = 1
        /\ Len(FramesOf("data")) = Ceil(fsize, CHUNKSIZE)
        /\ Len(FramesOf("terminator")) = 1
        /\ fsent[1].kind = "header" /\ fsent[Len(fsent)].kind = "terminator"
        /\ \A i \in 1..Len(FramesOf("data")) :
            FramesOf("data")[i].len =
                IF i < Len(FramesOf("data")) \/ fsize % CHUNKSIZE = 0
                THEN CHUNKSIZE ELSE fsize % CHUNKSIZE
        /\ fread = Len(fsent)

\* A file of two chunks and a half has gone through: three data frames.
C20_Witness ==
    /\ fstate = "done"
    /\ fsize = 2 * CHUNKSIZE + CHUNKSIZE \div 2
    /\ fout = << <<0, CHUNKSIZE>>, <<CHUNKSIZE, CHUNKSIZE>>,
                 <<2 * CHUNKSIZE, CHUNKSIZE \div 2>> >>

\* C21: the common folder computed for a list of files is an ancestor of
\* every file of the list, so that each file has a path relative to it;
\* also for files under unrelated folders, such as /a/b/c.txt and /x/y.txt.
C21_CommonFolderIsAncestor ==
    common_folder # <<"unset">> =>
        \A i \in 1..Len(files) : IsPrefix(common_folder, files[i])

\* The values e wrote, and the values e read, in the version and mode legs.
HandshakeWhats == {"version", "verdict", "mode", "mode_verdict"}
ValuesOf(ops) == [i \in 1..Len(ops) |-> ops[i].val]
HandshakeWritten(e) ==
    ValuesOf(SelectSeq(OpsOn(e, HandshakeWhats), LAMBDA o : o.op = "w"))
HandshakeRead(e) ==
    ValuesOf(SelectSeq(OpsOn(e, HandshakeWhats), LAMBDA o : o.op = "r"))
\* Every value written in the two legs has been read by the other side, and
\* there were 4 of them between equal versions, 5 otherwise.
HandshakeExchanged ==
    /\ \A e \in Endpoints : HandshakeWritten(e) = HandshakeRead(Other(e))
    /\ Len(HandshakeWritten("a")) + Len(HandshakeWritten("b")) =
        IF version["a"] = version["b"] THEN 4 ELSE 5
\* The first value e read in the streaming phase is the sender's N.
CountReadFirst(e) ==
    Did(e, "r", "num_files") =>
        /\ StreamedOps(e)[1] = Op("r", "num_files", num_files[Other(e)])
        /\ Has(Other(e), "w", "num_files", num_files[e])
BothHandshakesOk == \A e \in Endpoints : HandshakeOk(e)
CountWritten(e) == in_flight[e] # <<-1, -1>>

\* C22 as stated: when the handshake has succeeded on both sides, every
\* value written in the version and mode legs has been read by the other
\* side, 4 values between equal versions and 5 otherwise, both directions
\* of the stream were empty when the sender wrote the file count, and the
\* first value the receiver reads in the streaming phase is N.
C22_StreamEmptyAtCount ==
    BothHandshakesOk =>
        /\ HandshakeExchanged
        /\ \A e \in Endpoints :
            /\ CountWritten(e) => in_flight[e] = <<0, 0>>
            /\ CountReadFirst(e)

\* C22, amended: when the handshake has succeeded on both sides, every
\* value written in the two legs has been read by the other side, 4 values
\* between equal versions and 5 otherwise; when the sender wrote the file
\* count nothing was in flight towards it, and towards the receiver nothing
\* but, when the sender is the host, the mode verdict it had just written;
\* the first value the receiver reads in the streaming phase is N.
C22_OnlyVerdictAheadOfCount ==
    /\ BothHandshakesOk => HandshakeExchanged
    /\ \A e \in Endpoints :
        /\ CountWritten(e) =>
            /\ HandshakeOk(e) /\ mode[e] = "Send"
            /\ in_flight[e][1] = 0
            /\ in_flight[e][2] \in (IF peer_resource[e] = "WifiClient" THEN {0} ELSE {0, 1})
            /\ HandshakeRead(e) = HandshakeWritten(Other(e))
        /\ CountReadFirst(e)

\* A hosting sender wrote the count while its mode verdict was in flight;
\* the receiver has since read the verdict and then the count, after a
\* handshake of five values.
C22_Witness ==
    \E e \in Endpoints :
        /\ BothHandshakesOk
        /\ in_flight[e] = <<0, 1>>
        /\ version["a"] # version["b"]
        /\ Did(Other(e), "r", "num_files")

\* The labels of the errors start_transfer can end on before it has a
\* stream.
NoStreamLabels == {"Could not establish Bluetooth connection",
                   "Error connecting to peer", "Error starting TCP connection"}
LastErr(e) == ErrsReported(e)[Len(ErrsReported(e))][1]

\* C23: start_transfer returns None exactly when it ended before it had a
\* TCP stream, on an error of the Bluetooth negotiation, of connect_to_peer
\* or of start_tcp, and Some(stream) on every other exit, error or success;
\* so a stream that was opened is handed to clean_up_transfer, whose first
\* step shuts it down.
C23_NoneIffNoStream ==
    \A e \in Endpoints :
        /\ Ended(e) <=> ret[e] \in {"None", "Some"}
        /\ ret[e] = "None" <=> Ended(e) /\ stream[e] = "none"
        /\ ret[e] = "Some" <=> Ended(e) /\ stream[e] # "none"
        /\ ret[e] = "None" =>
            /\ ErrsReported(e) # <<>> /\ LastErr(e) \in NoStreamLabels
            /\ wire[e] = <<>>
            /\ ~Reported(e, <<"Transfer complete", "">>)
        /\ ret[e] = "Some" =>
            /\ \A i \in 1..Len(ErrsReported(e)) : ErrsReported(e)[i][1] \notin NoStreamLabels
            /\ pc[e] = "returned" => stream[e] = "open"
            /\ TornDown(e) =>
                /\ stream[e] = "shutdown"
                /\ FirstCall(e)[1][1] = "shutdown"
        /\ (TornDown(e) /\ ret[e] = "None") => ~Runs(teardown[e], "shutdown")

\* A host's accept failed and it returned None; its connector, which had a
\* stream, returned Some on the error that followed; both are torn down.
C23_Witness ==
    \E e \in Endpoints :
        /\ TornDown(e) /\ ret[e] = "None"
        /\ LastErr(e) = "Error starting TCP connection"
        /\ TornDown(Other(e)) /\ ret[Other(e)] = "Some"
        /\ stream[Other(e)] = "shutdown"

\* e's session did not use Bluetooth and has ended, by a return or by a
\* cancel request, and the outer context is about to tear down.
EndedOffBluetooth(e) == pc[e] = "returned" /\ ~using_bluetooth[e]

\* C24: without Bluetooth, once the connection profile exists on the
\* machine, wherever the session ends afterwards (an error of connect_to_peer
\* after the profile was added, of start_tcp, of a leg or of the streaming,
\* success, or a cancel request where the task is suspended), the SSID slot
\* is set, and a clean_up_transfer whose commands succeed deletes the
\* profile, with the hotspot slot None as well as set; a profile is left
\* after teardown only when a command of the teardown failed.
C24_ProfileRemovedBySsid ==
    \A e \in Endpoints :
        /\ (profile[e] /\ ~using_bluetooth[e]) => ssid[e] = "Some"
        /\ (EndedOffBluetooth(e) /\ profile[e]) =>
            /\ ENABLED CleanUp(e)
            /\ ~ENABLED (CleanUp(e) /\ (profile'[e] \/ hotspotUp'[e]))
        /\ (TornDown(e) /\ ~using_bluetooth[e] /\ profile[e]) =>
            /\ faults > 0
            /\ \E i \in 1..Len(teardown[e]) : teardown[e][i] = <<"stop_hotspot", "None", "Some">>
                \/ teardown[e][i] = <<"stop_hotspot", peer_resource[e], "Some">>

\* A session that had made its connection profile was cancelled before the
\* hotspot slot was set; teardown, given the SSID alone, has deleted the
\* profile.
C24_Witness ==
    \E e \in Endpoints :
        /\ TornDown(e) /\ ret[e] = "Aborted"
        /\ ~using_bluetooth[e] /\ hosting[e] # "undecided"
        /\ FirstCall(e)[1] = <<"stop_hotspot", "None", "Some">>
        /\ ~profile[e]

====
